---- MODULE Spec2Model ----
(***************************************************************************)
(* A model of the GitHub proxy plugin:                                     *)
(*   - the proxy router (plugins/github-backend/src/router.ts) with the    *)
(*     client factory getOctokit and the rate-limit metrics middleware,    *)
(*   - the URL reader (plugins/github-backend/src/reader.ts): readUrl,     *)
(*     readTree and search, on top of the per-host client cache,           *)
(*   - GithubClient.forHost under concurrent calls, a request through the  *)
(*     retrying and throttling client, and the metrics middleware mounted  *)
(*     in front of a handler, the proxy handler under concurrent requests  *)
(*     and the urls of search, each as a specification of its own.         *)
(* Strings that the code takes apart are sequences: a URL path is the      *)
(* sequence of its "/segment" pieces, a repository path the sequence of    *)
(* its characters.                                                         *)
(***************************************************************************)
EXTENDS Integers, Sequences, FiniteSets, TLC

VARIABLES
    \* ---- proxy router: one inbound request ----
    req,        \* the inbound request {method, originalUrl, body, host header}
    layer,      \* position of the request in the router's middleware stack
    rpc,        \* where the proxy handler is: idle, getOctokit, request, done, rejected
    octokit,    \* the handler's local `octokit`
    clients,    \* number of clients constructed by getOctokit
    upstream,   \* the requests issued to the upstream API, in order
    outcome,    \* what the upstream call produced (the handler's `response` / `error`)
    res,        \* the response object of the inbound request
    thrown,     \* the error that escaped the handler, if any
    log,        \* logger calls, in order
    listeners,  \* 'finish' listeners attached to res
    gauges,     \* rate-limit snapshots emitted by the metrics listener, in order
    factory     \* what the steps of getOctokit did for this request

routerVars == <<req, layer, rpc, octokit, clients, upstream, outcome, res,
                thrown, log, listeners, gauges, factory>>

VARIABLES
    \* ---- URL reader: one call of readUrl, readTree or search ----
    op,           \* the operation called: none, readUrl, readTree, search
    pc,           \* where the call is
    arg,          \* the parsed url's sub-path and the etag option
    octokitCache, \* GithubClient's #octokitCache: the hosts that have a client
    fetched,      \* readUrl: what getContent produced
    listing,      \* response.data.tree of getTree: path -> type
    files,        \* the filtered entries (`files`), as their paths
    tasks,        \* readTree's per-blob tasks: path -> where the task is
    promiseAll,   \* the Promise.all over the tasks: pending, fulfilled, rejected
    tempDir,      \* the paths written under the temporary directory
    result,       \* what the call returned or threw
    apiCalls,     \* upstream calls issued by the call, by kind
    accessors     \* search: the calls of the results' content accessors, in order

readerVars == <<op, pc, arg, octokitCache, fetched, listing, files, tasks, promiseAll,
                tempDir, result, apiCalls, accessors>>

VARIABLES
    \* ---- the two tree filters applied to one listing ----
    fTree,      \* a recursive tree listing: path -> type
    fPath,      \* the url's sub-path
    fRead,      \* the paths readTree's filter selected
    fSearch     \* the paths search's filter selected

filterVars == <<fTree, fPath, fRead, fSearch>>

VARIABLES
    \* ---- GithubClient: concurrent forHost calls on one cache ----
    cache,      \* #octokitCache: the entries <<host, client>> of the Map
    calls,      \* the forHost calls made so far, in the order they started
    history     \* what the calls did, in order: discovery, return, stored, threw

cacheVars == <<cache, calls, history>>

VARIABLES
    \* ---- one octokit.request through the client getOctokit configures ----
    settled,    \* the call's promise: idle, pending, fulfilled or rejected
    attempts,   \* the upstream's answers to the attempts of the call, in order
    retried,    \* retries the retry policy has asked for
    warnings    \* logger.warn calls of the throttle callbacks, in order

clientVars == <<settled, attempts, retried, warnings>>

VARIABLES
    \* ---- rateLimitMetricsMiddleware mounted in front of a handler ----
    mStage,     \* received, next (listener attached, next() called), ended, measured
    mHeaders,   \* the headers of the response when it finished
    mSets       \* the gauge.set calls of the finish listener, in order

metricsVars == <<mStage, mHeaders, mSets>>

VARIABLES
    \* ---- the proxy handler serving several requests at once ----
    requests,   \* the requests received, each with the handler's locals
    built,      \* the clients constructed so far
    forwarded   \* the upstream calls made: which request, with which client

concurrentVars == <<requests, built, forwarded>>

VARIABLES
    \* ---- the urls search returns, parsed again ----
    uUrl,       \* the url search is called with
    uSearched,  \* parseGithubUrl of it
    uBlob,      \* the path of a matched blob
    uReturned,  \* the url search returns for the blob
    uParsed     \* parseGithubUrl of the returned url

urlVars == <<uUrl, uSearched, uBlob, uReturned, uParsed>>

vars == <<routerVars, readerVars, filterVars, cacheVars, clientVars, metricsVars, concurrentVars, urlVars>>

(***************************************************************************)
(* Bounds of the model                                                     *)
(***************************************************************************)
MaxUrlLen == 4      \* "/segment" pieces in an inbound originalUrl
MaxPathLen == 3     \* characters in a repository path (tree filters)
MaxTree == 2        \* entries in a tree listing (tree filters)
MaxBlobs == 2       \* entries in a tree listing (reader calls)
MaxAccess == 2      \* calls of content accessors on one search result
MaxCallers == 3     \* forHost calls made on one cache
MaxAttempts == 5    \* upstream attempts of one call that the model follows
MaxHeaderLen == 2   \* characters in the value of a rate-limit header
MaxRequests == 3    \* inbound requests the router serves at once

(***************************************************************************)
(* Generic helpers                                                         *)
(***************************************************************************)
RECURSIVE SeqsUpTo(_, _)
SeqsUpTo(S, n) ==
    IF n = 0 THEN {<<>>}
    ELSE LET shorter == SeqsUpTo(S, n - 1)
         IN  shorter \cup {Append(s, x) : s \in {t \in shorter : Len(t) = n - 1}, x \in S}

\* s.startsWith(p)
StartsWith(s, p) == Len(p) <= Len(s) /\ SubSeq(s, 1, Len(p)) = p

\* the positions at which pat occurs in s
Occurrences(s, pat) ==
    {i \in 1..(Len(s) - Len(pat) + 1) : SubSeq(s, i, i + Len(pat) - 1) = pat}

Min(S) == CHOOSE m \in S : \A k \in S : m <= k

\* String.prototype.replace(pat, rep) with a string pattern: the first
\* occurrence only, wherever it is
ReplaceFirst(s, pat, rep) ==
    IF Occurrences(s, pat) = {} THEN s
    ELSE LET i == Min(Occurrences(s, pat))
         IN  SubSeq(s, 1, i - 1) \o rep \o SubSeq(s, i + Len(pat), Len(s))

\* delete obj[k]
Delete(obj, k) == [n \in DOMAIN obj \ {k} |-> obj[n]]

\* obj[k] = v
Assign(obj, k, v) == [n \in DOMAIN obj \cup {k} |-> IF n = k THEN v ELSE obj[n]]

EmptyObject == [n \in {} |-> ""]

(***************************************************************************)
(* Values of the proxy router                                              *)
(***************************************************************************)
Absent == "<undefined>"              \* a header that is not there
Hosts == {"github.com", "ghe.example.com"}
HostHeaders == {Absent, ""} \cup Hosts
Methods == {"GET", "POST"}
Bodies == {"{}", "{\"a\":1}"}

ApiPrefix == <<"/api", "/github">>   \* '/api/github'
UrlPieces == {"/api", "/github", "/repos"}
OriginalUrls == SeqsUpTo(UrlPieces, MaxUrlLen)

NoStatus == 0                        \* an error without a (truthy) status
DefaultErrorStatus == 500

HeaderNames == {"transfer-encoding", "content-encoding", "content-type", "etag"}
HeaderValues(n) ==
    CASE n = "transfer-encoding" -> {"chunked"}
      [] n = "content-encoding"  -> {"gzip"}
      [] n = "content-type"      -> {"text/plain", "application/json; charset=utf-8"}
      [] OTHER                   -> {"W/1"}
UpstreamHeaders ==
    UNION {{h \in [S -> UNION {HeaderValues(n) : n \in S}] :
                \A n \in S : h[n] \in HeaderValues(n)} : S \in SUBSET HeaderNames}

\* response.data as Octokit hands it over
UpstreamData ==
    {[type |-> "undefined", text |-> ""],
     [type |-> "object", text |-> "{\"id\":1}"],
     [type |-> "string", text |-> "raw"]}
SuccessStatuses == {200, 204}
ErrorStatuses == {NoStatus, 404, 502}

Responses ==
    [kind : {"response"}, status : SuccessStatuses, headers : UpstreamHeaders,
     data : UpstreamData]
RequestErrors ==
    [kind : {"error"}, status : ErrorStatuses, message : {<<"upstream failed">>}]
NoOutcome == [kind |-> "none"]

NoClient == [kind |-> "undefined"]   \* getOctokit's `undefined`
NoError == [name |-> "none"]
NoRequest == [method |-> "", originalUrl |-> <<>>, body |-> "", host |-> Absent]
FreshRes == [ended |-> FALSE, finished |-> FALSE, status |-> 0,
             headers |-> EmptyObject, body |-> <<>>]

\* the headers the metrics listener reads (res.getHeader ignores case)
RateLimitHeaders ==
    {"x-ratelimit-limit", "x-ratelimit-overall-remaining",
     "x-external-api-ratelimit-reset"}

\* JSON.stringify(value): undefined has no JSON text
JSONstringify(value) ==
    IF value = [type |-> "undefined", text |-> ""] THEN <<>> ELSE <<"json", value>>

\* mutant: only a missing header counts, url === undefined
FalsyOnlyUndefined(url) == url = Absent

\* !url
Falsy(url) == url \in {Absent, ""}

(***************************************************************************)
(* createRouter: the middleware stack, in registration order               *)
(***************************************************************************)
RouterStack == <<"express.json", "proxy", "rateLimitMetrics">>

\* An inbound request reaches the router.
Receive ==
    /\ rpc = "idle" /\ layer = 0
    /\ \E m \in Methods, u \in OriginalUrls, b \in Bodies, h \in HostHeaders :
           req' = [method |-> m, originalUrl |-> u, body |-> b, host |-> h]
    /\ layer' = 1
    /\ UNCHANGED <<rpc, octokit, clients, upstream, outcome, res, thrown, log,
                   listeners, gauges>>
    /\ UNCHANGED <<readerVars, filterVars, cacheVars, clientVars, metricsVars, concurrentVars, urlVars>>
    /\ UNCHANGED factory

(***************************************************************************)
(* getOctokit: the client factory.  A run tells what each step of its try  *)
(* block did: getCredentials resolved with a token or rejected, byUrl gave  *)
(* an integration, undefined, or threw, the constructor gave a client or   *)
(* threw.  A step after a failing one is not run.                          *)
(***************************************************************************)
CredentialOutcomes == {"token", "throws"}
LookupOutcomes == {"integration", "undefined", "throws"}
ConstructOutcomes == {"client", "throws"}
NotRun == "not run"
NoRun == [cred |-> NotRun, byUrl |-> NotRun, construct |-> NotRun]

FactoryRuns ==
    {r \in [cred : CredentialOutcomes,
            byUrl : LookupOutcomes \cup {NotRun},
            construct : ConstructOutcomes \cup {NotRun}] :
        /\ (r.byUrl = NotRun) <=> (r.cred = "throws")
        /\ (r.construct = NotRun) <=> (r.byUrl \in {NotRun, "throws"})}

\* the step of a run that threw, if any
FailedStep(run) ==
    IF run.cred = "throws" THEN "getCredentials"
    ELSE IF run.byUrl = "throws" THEN "byUrl"
    ELSE IF run.construct = "throws" THEN "new OctokitClient"
    ELSE "none"

OctokitClient(url, found) ==
    [kind |-> "client", auth |-> <<"token for", url>>,
     baseUrl |-> IF found THEN <<"apiBaseUrl of", url>> ELSE <<"default">>,
     retries |-> 3]

\* mutant: the catch block returns undefined without logging
getOctokitSilent(url, run) ==
    IF FailedStep(run) = "none"
    THEN [client |-> OctokitClient(url, run.byUrl = "integration"), log |-> <<>>]
    ELSE [client |-> NoClient, log |-> <<>>]

\* try { ... return new OctokitClient(...) }
\* catch (error) { logger.error(...); return undefined }
getOctokit(url, run) ==
    IF FailedStep(run) = "none"
    THEN [client |-> OctokitClient(url, run.byUrl = "integration"), log |-> <<>>]
    ELSE [client |-> NoClient,
          log |-> <<[level |-> "error",
                     message |-> <<"Error creating Octokit for url ", url,
                                   ": ", FailedStep(run)>>]>>]

(***************************************************************************)
(* The proxy handler, router.use(async (req, res) => ...)                  *)
(***************************************************************************)
\* mutant: every occurrence of the prefix is removed (replaceAll)
RECURSIVE updatedUrlReplaceAll(_)
updatedUrlReplaceAll(originalUrl) ==
    IF Occurrences(originalUrl, ApiPrefix) = {} THEN originalUrl
    ELSE updatedUrlReplaceAll(ReplaceFirst(originalUrl, ApiPrefix, <<>>))

\* originalUrl.replace('/api/github', '')
updatedUrl(originalUrl) == ReplaceFirst(originalUrl, ApiPrefix, <<>>)

\* mutant: the upstream headers are relayed as they are
filteredHeadersUnfiltered(headers) == headers

\* the upstream headers without the framing headers, content-type forced
filteredHeaders(headers) ==
    Assign(Delete(Delete(headers, "transfer-encoding"), "content-encoding"),
           "content-type", "application/json")

\* res.writeHead(response.status, filteredHeaders); res.end(JSON.stringify(response.data))
RelayResponse(r, response) ==
    [r EXCEPT !.ended = TRUE,
              !.status = response.status,
              !.headers = filteredHeaders(response.headers),
              !.body = JSONstringify(response.data)]

\* mutant: the status of the error is ignored
ErrorStatusAlways500(error) == DefaultErrorStatus

\* error.status || 500
ErrorStatus(error) ==
    IF error.status = NoStatus THEN DefaultErrorStatus ELSE error.status

\* res.status(error.status || 500).json({ error: error.message })
ErrorResponse(r, error) ==
    [r EXCEPT !.ended = TRUE,
              !.status = ErrorStatus(error),
              !.headers = Assign(r.headers, "content-type",
                                 "application/json; charset=utf-8"),
              !.body = JSONstringify([error |-> error.message])]

\* logger.error(error)
LoggedError(error) == [level |-> "error", message |-> error.message]

\* mutant: no check for the absent client, the call on undefined fails
NoOctokitErrorTypeError(url) ==
    [kind |-> "error", status |-> NoStatus,
     message |-> <<"Cannot read properties of undefined (reading 'request')">>]

\* new Error(`Failed to create Octokit instance for ${url}`)
NoOctokitError(url) ==
    [kind |-> "error", status |-> NoStatus,
     message |-> <<"Failed to create Octokit instance for ", url>>]

\* new InputError('Missing "github-host" header')
MissingHeaderError ==
    [name |-> "InputError", message |-> <<"Missing \"github-host\" header">>]

\* express.json(): the body is parsed and the request goes on
JsonMiddleware ==
    /\ layer' = layer + 1
    /\ UNCHANGED <<req, rpc, octokit, clients, upstream, outcome, res, thrown,
                   log, listeners, gauges>>
    /\ UNCHANGED <<readerVars, filterVars, cacheVars, clientVars, metricsVars, concurrentVars, urlVars>>
    /\ UNCHANGED factory

\* The proxy handler up to its first await.  It takes no `next`: the request
\* stays at this layer.
ProxyHandler ==
    /\ IF Falsy(req.host)
       THEN thrown' = MissingHeaderError /\ rpc' = "rejected"
       ELSE thrown' = thrown /\ rpc' = "getOctokit"
    /\ UNCHANGED <<req, layer, octokit, clients, upstream, outcome, res, log,
                   listeners, gauges>>
    /\ UNCHANGED <<readerVars, filterVars, cacheVars, clientVars, metricsVars, concurrentVars, urlVars>>
    /\ UNCHANGED factory

\* rateLimitMetricsMiddleware: res.on('finish', ...); next()
RateLimitMetricsMiddleware ==
    /\ listeners' = listeners + 1
    /\ layer' = layer + 1
    /\ UNCHANGED <<req, rpc, octokit, clients, upstream, outcome, res, thrown,
                   log, gauges>>
    /\ UNCHANGED <<readerVars, filterVars, cacheVars, clientVars, metricsVars, concurrentVars, urlVars>>
    /\ UNCHANGED factory

\* The router hands the request to the layer it has reached.
Dispatch ==
    /\ rpc = "idle"
    /\ layer \in 1..Len(RouterStack)
    /\ CASE RouterStack[layer] = "express.json" -> JsonMiddleware
         [] RouterStack[layer] = "proxy" -> ProxyHandler
         [] OTHER -> RateLimitMetricsMiddleware

\* `await getOctokit(...)` resolves; the handler runs on to its next await, or
\* to its catch block when there is no client.
GetOctokit ==
    /\ rpc = "getOctokit"
    /\ \E run \in FactoryRuns :
         LET made == getOctokit(req.host, run) IN
         /\ factory' = run
         /\ octokit' = made.client
         /\ clients' = clients + (IF made.client = NoClient THEN 0 ELSE 1)
         /\ IF made.client = NoClient
            THEN /\ log' = log \o made.log \o <<LoggedError(NoOctokitError(req.host))>>
                 /\ res' = ErrorResponse(res, NoOctokitError(req.host))
                 /\ outcome' = NoOctokitError(req.host)
                 /\ rpc' = "done"
                 /\ UNCHANGED upstream
            ELSE /\ log' = log \o made.log
                 /\ upstream' = Append(upstream,
                                       [method |-> req.method,
                                        url |-> updatedUrl(req.originalUrl),
                                        data |-> req.body,
                                        client |-> made.client])
                 /\ rpc' = "request"
                 /\ UNCHANGED <<res, outcome>>
    /\ UNCHANGED <<req, layer, thrown, listeners, gauges>>
    /\ UNCHANGED <<readerVars, filterVars, cacheVars, clientVars, metricsVars, concurrentVars, urlVars>>

\* `await octokit.request(...)` settles: a response is relayed, an error goes
\* to the catch block.
Request ==
    /\ rpc = "request"
    /\ \E o \in Responses \cup RequestErrors :
         /\ outcome' = o
         /\ IF o.kind = "response"
            THEN res' = RelayResponse(res, o) /\ log' = log
            ELSE res' = ErrorResponse(res, o) /\ log' = Append(log, LoggedError(o))
    /\ rpc' = "done"
    /\ UNCHANGED <<req, layer, octokit, clients, upstream, thrown, listeners, gauges>>
    /\ UNCHANGED <<readerVars, filterVars, cacheVars, clientVars, metricsVars, concurrentVars, urlVars>>
    /\ UNCHANGED factory

\* The response has been handed to the network: 'finish' fires and the
\* listeners attached to res run.
Finish ==
    /\ res.ended /\ ~res.finished
    /\ res' = [res EXCEPT !.finished = TRUE]
    /\ gauges' = IF listeners > 0
                 THEN Append(gauges, DOMAIN res.headers \cap RateLimitHeaders)
                 ELSE gauges
    /\ UNCHANGED <<req, layer, rpc, octokit, clients, upstream, outcome, thrown,
                   log, listeners>>
    /\ UNCHANGED <<readerVars, filterVars, cacheVars, clientVars, metricsVars, concurrentVars, urlVars>>
    /\ UNCHANGED factory

NextRouter == Receive \/ Dispatch \/ GetOctokit \/ Request \/ Finish

(***************************************************************************)
(* Repository paths and tree listings                                      *)
(***************************************************************************)
PathChars == {"a", ".", "/"}
StarStar == <<"*", "*">>             \* the glob pattern '**'

\* the segments of a path, split at "/"
RECURSIVE Segments(_)
Segments(p) ==
    IF \A i \in DOMAIN p : p[i] # "/" THEN <<p>>
    ELSE LET i == Min({k \in DOMAIN p : p[k] = "/"})
         IN  <<SubSeq(p, 1, i - 1)>> \o Segments(SubSeq(p, i + 1, Len(p)))

\* a path a git tree can hold: no empty segment, no "." or ".." segment
WellFormed(p) ==
    \A k \in DOMAIN Segments(p) :
        Segments(p)[k] \notin {<<>>, <<".">>, <<".", ".">>}

Paths(n) == {p \in SeqsUpTo(PathChars, n) : WellFormed(p)}

\* the directories a path lies in
Parents(p) == {SubSeq(p, 1, i - 1) : i \in {k \in DOMAIN p : p[k] = "/"}}

EntryTypes == {"blob", "tree"}

RECURSIVE SubsetsUpTo(_, _)
SubsetsUpTo(S, n) ==
    IF n = 0 THEN {{}}
    ELSE LET smaller == SubsetsUpTo(S, n - 1)
         IN  smaller \cup {T \cup {x} : T \in smaller, x \in S}

\* the recursive listings of at most n entries: every directory of a listed
\* path is listed as a tree
TreesOver(paths, n) ==
    {t \in UNION {[S -> EntryTypes] : S \in SubsetsUpTo(paths, n)} :
        \A p \in DOMAIN t : \A d \in Parents(p) : d \in DOMAIN t /\ t[d] = "tree"}

(***************************************************************************)
(* The filters of readTree and search                                      *)
(***************************************************************************)
\* mutant: the entry type is not looked at
ReadTreeFilesAnyType(tree, path) ==
    {p \in DOMAIN tree : path = <<>> \/ StartsWith(p, path)}

\* item.type === 'blob' && (!path || item.path?.startsWith(path))
ReadTreeFiles(tree, path) ==
    {p \in DOMAIN tree : tree[p] = "blob" /\ (path = <<>> \/ StartsWith(p, path))}

\* minimatch(p, pattern) with its default options (dot: false): '**' matches
\* any path none of whose segments starts with a dot; a pattern without glob
\* characters matches itself only
Minimatch(p, pattern) ==
    IF pattern = StarStar
    THEN \A k \in DOMAIN Segments(p) : Segments(p)[k][1] # "."
    ELSE p = pattern

\* item.type === 'blob' && minimatch(item.path!, path || '**')
SearchFiles(tree, path) ==
    {p \in DOMAIN tree :
        tree[p] = "blob" /\ Minimatch(p, IF path = <<>> THEN StarStar ELSE path)}

(***************************************************************************)
(* The tree filters as pure functions of a listing and a sub-path          *)
(***************************************************************************)
Unset == [set |-> FALSE, files |-> {}]

\* readTree's filter is applied to the listing
ApplyReadTree ==
    /\ ~fRead.set
    /\ fRead' = [set |-> TRUE, files |-> ReadTreeFiles(fTree, fPath)]
    /\ UNCHANGED <<fTree, fPath, fSearch>>
    /\ UNCHANGED <<routerVars, readerVars, cacheVars, clientVars, metricsVars, concurrentVars, urlVars>>

\* search's filter is applied to the same listing
ApplySearch ==
    /\ ~fSearch.set
    /\ fSearch' = [set |-> TRUE, files |-> SearchFiles(fTree, fPath)]
    /\ UNCHANGED <<fTree, fPath, fRead>>
    /\ UNCHANGED <<routerVars, readerVars, cacheVars, clientVars, metricsVars, concurrentVars, urlVars>>

NextFilter == ApplyReadTree \/ ApplySearch

(***************************************************************************)
(* Values of the URL reader                                                *)
(***************************************************************************)
ReaderPaths == {<<"a">>, <<"a", "/", "a">>, <<"a", "a">>, <<".", "a">>}
ReaderSubPaths == {<<>>, <<"a">>}
Etags == {Absent, "W/1"}
Operations == {"readUrl", "readTree", "search"}

NoResult == [kind |-> "none"]
Value(v) == [kind |-> "value", value |-> v]
Threw(e) == [kind |-> "error", error |-> e]

\* an error of the upstream client (a RequestError) with its status
HttpError(s) == [name |-> "HttpError", status |-> s, message |-> <<"upstream failed">>]
\* new Error(message)
Error(m) == [name |-> "Error", status |-> NoStatus, message |-> m]
\* new NotModifiedError()
NotModifiedError == [name |-> "NotModifiedError", status |-> NoStatus, message |-> <<>>]

NotModified == 304

\* what repos.getContent can produce: a file, a file in another encoding, a
\* directory listing (no `content`), or an error; 304 only answers a
\* conditional request
FileBase64 == [kind |-> "response", data |-> "file", encoding |-> "base64"]
FileOther == [kind |-> "response", data |-> "file", encoding |-> "none"]
Directory == [kind |-> "response", data |-> "dir", encoding |-> ""]
ContentOutcomes(etag) ==
    {FileBase64, FileOther, Directory}
        \cup {[kind |-> "error", error |-> HttpError(s)] :
                 s \in {404, 500} \cup (IF etag # Absent THEN {NotModified} ELSE {})}

\* what git.getTree can produce
TreeOutcomes ==
    {[kind |-> "response", tree |-> t] : t \in TreesOver(ReaderPaths, MaxBlobs)}
        \cup {[kind |-> "error", error |-> HttpError(404)]}

NoCalls == [getTree |-> 0, getContent |-> 0, discovery |-> 0]
NoArg == [host |-> "", path |-> <<>>, etag |-> Absent]
Pending == [state |-> "pending"]

(***************************************************************************)
(* readUrl                                                                 *)
(***************************************************************************)
\* mutant: the catch block does not look for 304
ReadUrlCatchRethrows(error) == Threw(error)

\* catch (error) { if (error.status === 304) throw new NotModifiedError(); throw error }
ReadUrlCatch(error) ==
    IF error.status = NotModified THEN Threw(NotModifiedError) ELSE Threw(error)

\* the try block of readUrl, given what getContent produced
ReadUrlResult(o, etag) ==
    IF o.kind = "error" THEN ReadUrlCatch(o.error)
    ELSE IF o.data # "file"
         THEN ReadUrlCatch(Error(<<"Expected file but got a directory">>))
    ELSE IF o.encoding # "base64"
         THEN ReadUrlCatch(Error(<<"Unsupported encoding: ", o.encoding>>))
    ELSE Value([buffer |-> "decoded content", etag |-> "W/2"])

(***************************************************************************)
(* readTree: the join of the per-blob tasks                                *)
(***************************************************************************)
Settled(t) == \A q \in DOMAIN t : t[q] \in {"written", "returned", "rejected"}

\* mutant: the join waits for every task and ignores failures (allSettled)
PromiseAllSettled(pa, t, p, reason) ==
    IF pa.state # "pending" THEN pa
    ELSE IF Settled(t) THEN [state |-> "fulfilled"]
    ELSE pa

\* Promise.all after task p moved (t is the tasks' new state): it rejects
\* with the first rejection and fulfils when every task has fulfilled
PromiseAll(pa, t, p, reason) ==
    IF pa.state # "pending" THEN pa
    ELSE IF t[p] = "rejected" THEN [state |-> "rejected", reason |-> reason]
    ELSE IF \A q \in DOMAIN t : t[q] \in {"written", "returned"}
         THEN [state |-> "fulfilled"]
    ELSE pa

\* what readTree returns: the listing of `files`, the directory, the etag
ReadTreeValue(fs) == Value([files |-> fs, dir |-> "url-reader-XXXXXX", etag |-> "W/2"])

\* what search returns: one url per matched file
SearchUrl(a, p) == [host |-> "github.com", path |-> p]
SearchValue(a, fs) == Value([files |-> {SearchUrl(a, p) : p \in fs}, etag |-> "W/2"])

\* mutant: the content of every matched file is fetched before search returns
SearchEagerContentAll(fs) == fs

\* the matched files whose content search fetches before it returns: none,
\* `content` is a closure that fetches when it is called
SearchEagerContent(fs) == {}

\* the body of a search result's `content: async () => ...`, given what its
\* getContent produced for path p
ContentAccessorResult(o, p) ==
    IF o.kind = "error" THEN Threw(o.error)
    ELSE IF o.data # "file"
         THEN Threw(Error(<<"Expected file but got directory: ", p>>))
    ELSE IF o.encoding # "base64"
         THEN Threw(Error(<<"Unsupported encoding: ", o.encoding>>))
    ELSE Value([buffer |-> "decoded content"])

(***************************************************************************)
(* The reader's steps                                                      *)
(***************************************************************************)
\* A caller calls readUrl, readTree or search; parseGithubUrl runs and the
\* call awaits forHost.
Call ==
    /\ op = "none"
    /\ \E o \in Operations, h \in Hosts, path \in ReaderSubPaths, e \in Etags,
          hasSource \in BOOLEAN :
         /\ o # "readUrl" => e = Absent
         /\ op' = o
         /\ arg' = [host |-> h, path |-> path, etag |-> e]
         /\ IF hasSource
            THEN pc' = "forHost" /\ result' = result
            ELSE pc' = "done" /\ result' = Threw(Error(<<"Invalid Git URL">>))
    /\ UNCHANGED <<octokitCache, fetched, listing, files, tasks, promiseAll, tempDir,
                   apiCalls>>
    /\ UNCHANGED <<routerVars, filterVars, cacheVars, clientVars, metricsVars, concurrentVars, urlVars>>
    /\ UNCHANGED accessors

\* forHost(host) settles: a cached client, or discovery and a new client
\* that is stored, or discovery's error.  With a client the call issues its
\* first upstream request.
ForHost ==
    /\ pc = "forHost"
    /\ \E discovered \in BOOLEAN :
         LET hit == arg.host \in octokitCache IN
         /\ hit => discovered
         /\ octokitCache' = IF discovered THEN octokitCache \cup {arg.host}
                            ELSE octokitCache
         /\ IF discovered
            THEN /\ pc' = IF op = "readUrl" THEN "getContent" ELSE "getTree"
                 /\ result' = result
                 /\ apiCalls' =
                      [apiCalls EXCEPT
                          !.discovery = @ + (IF hit THEN 0 ELSE 1),
                          !.getContent = @ + (IF op = "readUrl" THEN 1 ELSE 0),
                          !.getTree = @ + (IF op = "readUrl" THEN 0 ELSE 1)]
            ELSE /\ pc' = "done"
                 /\ result' = Threw(Error(<<"discovery failed">>))
                 /\ apiCalls' = [apiCalls EXCEPT !.discovery = @ + 1]
    /\ UNCHANGED <<op, arg, fetched, listing, files, tasks, promiseAll, tempDir>>
    /\ UNCHANGED <<routerVars, filterVars, cacheVars, clientVars, metricsVars, concurrentVars, urlVars>>
    /\ UNCHANGED accessors

\* readUrl: getContent settles
GetContent ==
    /\ op = "readUrl" /\ pc = "getContent"
    /\ \E o \in ContentOutcomes(arg.etag) :
         /\ fetched' = o
         /\ result' = ReadUrlResult(o, arg.etag)
    /\ pc' = "done"
    /\ UNCHANGED <<op, arg, octokitCache, listing, files, tasks, promiseAll, tempDir, apiCalls>>
    /\ UNCHANGED <<routerVars, filterVars, cacheVars, clientVars, metricsVars, concurrentVars, urlVars>>
    /\ UNCHANGED accessors

\* readTree and search: getTree settles.  An error propagates; readTree
\* filters and awaits mkdtemp; search filters and returns.
GetTree ==
    /\ pc = "getTree"
    /\ \E o \in TreeOutcomes :
         IF o.kind = "error"
         THEN /\ result' = Threw(o.error)
              /\ pc' = "done"
              /\ UNCHANGED <<listing, files, apiCalls>>
         ELSE /\ listing' = o.tree
              /\ IF op = "readTree"
                 THEN /\ files' = ReadTreeFiles(o.tree, arg.path)
                      /\ pc' = "mkdtemp"
                      /\ result' = result
                      /\ apiCalls' = apiCalls
                 ELSE /\ files' = SearchFiles(o.tree, arg.path)
                      /\ pc' = "done"
                      /\ result' = SearchValue(arg, SearchFiles(o.tree, arg.path))
                      /\ apiCalls' =
                           [apiCalls EXCEPT
                               !.getContent =
                                   @ + Cardinality(SearchEagerContent(
                                           SearchFiles(o.tree, arg.path)))]
    /\ UNCHANGED <<op, arg, octokitCache, fetched, tasks, promiseAll, tempDir>>
    /\ UNCHANGED <<routerVars, filterVars, cacheVars, clientVars, metricsVars, concurrentVars, urlVars>>
    /\ UNCHANGED accessors

\* readTree: mkdtemp settles; every per-blob task starts and issues its
\* getContent; the call awaits Promise.all (of nothing, when no file matched)
Mkdtemp ==
    /\ pc = "mkdtemp"
    /\ tasks' = [p \in files |-> "getContent"]
    /\ apiCalls' = [apiCalls EXCEPT !.getContent = @ + Cardinality(files)]
    /\ IF files = {}
       THEN /\ promiseAll' = [state |-> "fulfilled"]
            /\ result' = ReadTreeValue(files)
            /\ pc' = "done"
       ELSE /\ promiseAll' = promiseAll
            /\ result' = result
            /\ pc' = "tasks"
    /\ UNCHANGED <<op, arg, octokitCache, fetched, listing, files, tempDir>>
    /\ UNCHANGED <<routerVars, filterVars, cacheVars, clientVars, metricsVars, concurrentVars, urlVars>>
    /\ UNCHANGED accessors

\* The join after task p moved, and readTree's continuation when the join
\* has just settled.
Join(t, p, reason) ==
    LET pa == PromiseAll(promiseAll, t, p, reason) IN
    /\ promiseAll' = pa
    /\ IF promiseAll.state = "pending" /\ pa.state # "pending"
       THEN /\ pc' = "done"
            /\ result' = IF pa.state = "rejected" THEN Threw(pa.reason)
                         ELSE ReadTreeValue(files)
       ELSE UNCHANGED <<pc, result>>

\* a task's getContent settles
TaskGetContent ==
    /\ \E p \in DOMAIN tasks :
           /\ tasks[p] = "getContent"
           /\ \E o \in ContentOutcomes(Absent) :
                LET to == IF o.kind = "error" THEN "rejected"
                          ELSE IF o.data # "file" THEN "returned"
                          ELSE IF o.encoding # "base64" THEN "rejected"
                          ELSE "mkdir"
                    reason == IF o.kind = "error" THEN o.error
                              ELSE Error(<<"Unsupported encoding: ", o.encoding>>)
                    t == [tasks EXCEPT ![p] = to]
                IN  tasks' = t /\ Join(t, p, reason)
           /\ UNCHANGED <<op, arg, octokitCache, fetched, listing, files, tempDir, apiCalls>>
    /\ UNCHANGED <<routerVars, filterVars, cacheVars, clientVars, metricsVars, concurrentVars, urlVars>>
    /\ UNCHANGED accessors

\* a task's mkdir settles
TaskMkdir ==
    /\ \E p \in DOMAIN tasks :
           /\ tasks[p] = "mkdir"
           /\ tasks' = [tasks EXCEPT ![p] = "writeFile"]
           /\ UNCHANGED <<op, pc, arg, octokitCache, fetched, listing, files, promiseAll,
                          tempDir, result, apiCalls>>
    /\ UNCHANGED <<routerVars, filterVars, cacheVars, clientVars, metricsVars, concurrentVars, urlVars>>
    /\ UNCHANGED accessors

\* a task's writeFile settles: the file is there and the task is fulfilled
TaskWriteFile ==
    /\ \E p \in DOMAIN tasks :
           /\ tasks[p] = "writeFile"
           /\ tempDir' = tempDir \cup {p}
           /\ LET t == [tasks EXCEPT ![p] = "written"]
              IN  tasks' = t /\ Join(t, p, Error(<<>>))
           /\ UNCHANGED <<op, arg, octokitCache, fetched, listing, files, apiCalls>>
    /\ UNCHANGED <<routerVars, filterVars, cacheVars, clientVars, metricsVars, concurrentVars, urlVars>>
    /\ UNCHANGED accessors

\* search has returned: the caller calls the content accessor of a result,
\* which issues its getContent
ContentAccessor ==
    /\ op = "search" /\ pc = "done" /\ result.kind = "value"
    /\ Len(accessors) < MaxAccess
    /\ \E p \in files :
           accessors' = Append(accessors, [path |-> p, outcome |-> NoResult])
    /\ apiCalls' = [apiCalls EXCEPT !.getContent = @ + 1]
    /\ UNCHANGED <<op, pc, arg, octokitCache, fetched, listing, files, tasks,
                   promiseAll, tempDir, result>>
    /\ UNCHANGED <<routerVars, filterVars, cacheVars, clientVars, metricsVars, concurrentVars, urlVars>>

\* the getContent of an accessor call settles, and with it the call
AccessorGetContent ==
    /\ \E i \in DOMAIN accessors :
           /\ accessors[i].outcome = NoResult
           /\ \E o \in ContentOutcomes(Absent) :
                  accessors' =
                      [accessors EXCEPT
                          ![i].outcome = ContentAccessorResult(o, accessors[i].path)]
    /\ UNCHANGED <<op, pc, arg, octokitCache, fetched, listing, files, tasks,
                   promiseAll, tempDir, result, apiCalls>>
    /\ UNCHANGED <<routerVars, filterVars, cacheVars, clientVars, metricsVars, concurrentVars, urlVars>>

NextReader ==
    \/ Call \/ ForHost \/ GetContent \/ GetTree \/ Mkdtemp
    \/ TaskGetContent \/ TaskMkdir \/ TaskWriteFile
    \/ ContentAccessor \/ AccessorGetContent

(***************************************************************************)
(* GithubClient.forHost: the per-host client cache under concurrent calls  *)
(***************************************************************************)
\* new Octokit({baseUrl, request: {headers: {'github-host': host}}, ...});
\* id tells one constructed client from another
NewOctokit(id, host) == [id |-> id, host |-> host]
NoOctokit == [id |-> 0, host |-> ""]

\* mutant: the cache is never consulted
MapHasNever(m, k) == FALSE

\* Map.prototype.has
MapHas(m, k) == \E e \in m : e[1] = k

\* Map.prototype.get, for a key the map has
MapGet(m, k) == (CHOOSE e \in m : e[1] = k)[2]

\* mutant: an entry that is there is kept, the first store wins
MapSetKeepsFirst(m, k, v) == IF \E e \in m : e[1] = k THEN m ELSE m \cup {<<k, v>>}

\* Map.prototype.set: the entry of the key is replaced
MapSet(m, k, v) == {e \in m : e[1] # k} \cup {<<k, v>>}

\* mutant: the client is stored whether or not discovery succeeded
AfterDiscoveryAlwaysStores(m, host, client, ok) == MapSet(m, host, client)

\* the cache after `await this.#discovery.getBaseUrl('github')` settled: a
\* rejection leaves forHost at the await, nothing is constructed or stored
AfterDiscovery(m, host, client, ok) == IF ok THEN MapSet(m, host, client) ELSE m

Event(type, c, host, client) ==
    [type |-> type, call |-> c, host |-> host, client |-> client]

\* forHost(host) is called and runs to its first await: a cached client is
\* returned at once, otherwise discovery is started
ForHostEnter ==
    /\ Len(calls) < MaxCallers
    /\ \E host \in Hosts :
         LET c == Len(calls) + 1 IN
         IF MapHas(cache, host)
         THEN /\ calls' = Append(calls, [state |-> "returned", host |-> host,
                                         client |-> MapGet(cache, host)])
              /\ history' = Append(history,
                                   Event("return", c, host, MapGet(cache, host)))
         ELSE /\ calls' = Append(calls, [state |-> "discovery", host |-> host,
                                         client |-> NoOctokit])
              /\ history' = Append(history, Event("discovery", c, host, NoOctokit))
    /\ UNCHANGED cache
    /\ UNCHANGED <<routerVars, readerVars, filterVars, clientVars, metricsVars, concurrentVars, urlVars>>

\* discovery settles for a waiting call: the client is constructed, stored
\* and returned, or discovery's error leaves forHost
ForHostResume ==
    /\ \E c \in DOMAIN calls, ok \in BOOLEAN :
         LET host == calls[c].host
             client == NewOctokit(c, host)
         IN  /\ calls[c].state = "discovery"
             /\ cache' = AfterDiscovery(cache, host, client, ok)
             /\ IF ok
                THEN /\ calls' = [calls EXCEPT ![c].state = "returned",
                                               ![c].client = client]
                     /\ history' = Append(history, Event("stored", c, host, client))
                ELSE /\ calls' = [calls EXCEPT ![c].state = "threw"]
                     /\ history' = Append(history, Event("threw", c, host, NoOctokit))
    /\ UNCHANGED <<routerVars, readerVars, filterVars, clientVars, metricsVars, concurrentVars, urlVars>>

NextCache == ForHostEnter \/ ForHostResume

(***************************************************************************)
(* A request through the client of getOctokit: Octokit.plugin(retry,       *)
(* throttling) with the options getOctokit passes.  The retry plugin asks  *)
(* for another attempt after an error of status >= 400 unless              *)
(* doNotRetry.includes(error.status), up to `retries` retries; the         *)
(* throttling plugin hands a rate-limit signal to its callback and retries *)
(* when the callback returns true.                                         *)
(***************************************************************************)
\* JavaScript values of the two types that meet in doNotRetry.includes(status)
String(text) == [type |-> "string", text |-> text]
Number(n) == [type |-> "number", value |-> n]

\* retries: 3
Retries == 3

\* doNotRetry: ['400', '401', '403', '404', '422', '429', '501']
DoNotRetry ==
    {String("400"), String("401"), String("403"), String("404"), String("422"),
     String("429"), String("501")}

\* Array.prototype.includes: an element is found by value and type
Includes(list, v) == v \in list

\* what the upstream can answer to one attempt: a success, an error status,
\* or a rate-limit signal (primary: 403 with x-ratelimit-remaining 0,
\* secondary: 403 with a "secondary rate" message)
RateLimitSignals == {"primary", "secondary"}
FailingStatuses == {400, 401, 403, 404, 422, 429, 501, 500}
Answers ==
    {[status |-> 200, signal |-> "none"]}
        \cup {[status |-> st, signal |-> "none"] : st \in FailingStatuses}
        \cup {[status |-> 403, signal |-> sg] : sg \in RateLimitSignals}

\* mutant: the callback stops asking for a retry after the first one
OnRateLimitGivesUp(signal, retryCount) ==
    [retry |-> retryCount < 1,
     warn |-> [level |-> "warn", signal |-> signal, retryCount |-> retryCount]]

\* onRateLimit / onSecondaryRateLimit: logger.warn(...); return true
OnRateLimit(signal, retryCount) ==
    [retry |-> TRUE,
     warn |-> [level |-> "warn", signal |-> signal, retryCount |-> retryCount]]

\* the retry plugin's test on a failed attempt
WantsRetry(status, n) ==
    status >= 400 /\ ~Includes(DoNotRetry, Number(status)) /\ n < Retries

Idle == [state |-> "idle"]

\* octokit.request(...) is called: the first attempt goes out
OctokitRequest ==
    /\ settled = Idle
    /\ settled' = Pending
    /\ UNCHANGED <<attempts, retried, warnings>>
    /\ UNCHANGED <<routerVars, readerVars, filterVars, cacheVars, metricsVars, concurrentVars, urlVars>>

\* the upstream answers the attempt in flight: the call is fulfilled, or
\* rejected with the error, or another attempt goes out
Attempt ==
    /\ settled = Pending
    /\ Len(attempts) < MaxAttempts
    /\ \E a \in Answers :
         /\ attempts' = Append(attempts, a)
         /\ IF a.status < 400
            THEN /\ settled' = [state |-> "fulfilled", status |-> a.status]
                 /\ UNCHANGED <<retried, warnings>>
            ELSE IF a.signal \in RateLimitSignals
            THEN LET signals == {i \in DOMAIN attempts :
                                    attempts[i].signal \in RateLimitSignals}
                     cb == OnRateLimit(a.signal, Cardinality(signals))
                 IN  /\ warnings' = Append(warnings, cb.warn)
                     /\ settled' = IF cb.retry THEN Pending
                                   ELSE [state |-> "rejected", status |-> a.status]
                     /\ UNCHANGED retried
            ELSE IF WantsRetry(a.status, retried)
            THEN /\ retried' = retried + 1
                 /\ UNCHANGED <<settled, warnings>>
            ELSE /\ settled' = [state |-> "rejected", status |-> a.status]
                 /\ UNCHANGED <<retried, warnings>>
    /\ UNCHANGED <<routerVars, readerVars, filterVars, cacheVars, metricsVars, concurrentVars, urlVars>>

NextClient == OctokitRequest \/ Attempt

(***************************************************************************)
(* rateLimitMetricsMiddleware: the finish listener reads three response    *)
(* headers and sets one gauge for each header whose value is a string      *)
(***************************************************************************)
LimitHeader == "x-ratelimit-limit"
RemainingHeader == "x-ratelimit-overall-remaining"
ResetHeader == "x-external-api-ratelimit-reset"

Undefined == [type |-> "undefined"]
NaN == [type |-> "number", nan |-> TRUE]

\* the characters of a header value, and the value of a decimal digit
HeaderChars == {"6", "0", "a"}
DigitValue(ch) == IF ch = "6" THEN 6 ELSE 0
IsDigit(ch) == ch \in {"6", "0"}

\* what res.getHeader can give: nothing, a string, or the number a handler
\* passed to setHeader
HeaderValuesOf(n) ==
    {String(t) : t \in SeqsUpTo(HeaderChars, n)} \cup {Number(60)}
MetricHeaders(n) ==
    UNION {[S -> HeaderValuesOf(n)] :
              S \in SUBSET {LimitHeader, RemainingHeader, ResetHeader}}

\* res.getHeader(name)
GetHeader(headers, name) ==
    IF name \in DOMAIN headers THEN headers[name] ELSE Undefined

\* parseInt(text, 10): the number its leading digits spell, NaN when it has
\* none
RECURSIVE LeadingDigits(_)
LeadingDigits(text) ==
    IF text = <<>> \/ ~IsDigit(Head(text)) THEN <<>>
    ELSE <<Head(text)>> \o LeadingDigits(Tail(text))

RECURSIVE DecimalValue(_)
DecimalValue(digits) ==
    IF digits = <<>> THEN 0
    ELSE 10 * DecimalValue(SubSeq(digits, 1, Len(digits) - 1))
            + DigitValue(digits[Len(digits)])

ParseInt(text) ==
    IF LeadingDigits(text) = <<>> THEN NaN
    ELSE Number(DecimalValue(LeadingDigits(text)))

\* a - n in floating point: NaN stays NaN
Minus(a, n) == IF a = NaN THEN NaN ELSE Number(a.value - n)

\* Math.floor(Date.now() / 1000) when the listener runs
Nows == {0, 60}

\* httpAuth.credentials(req) and the principal's name used as invoked_by
Principals == {"user", "service", "none"}
InvokedBy(principal) ==
    CASE principal = "user" -> "user:default/guest"
      [] principal = "service" -> "plugin:catalog"
      [] OTHER -> "<undefined>"

GaugeSet(gauge, invokedBy, value) ==
    [gauge |-> gauge, invoked_by |-> invokedBy, value |-> value]

\* the three `if (typeof x === 'string') gauge.set(labels, parseInt(x, 10))`
RateLimitSets(headers, invokedBy, now) ==
    LET limit == GetHeader(headers, LimitHeader)
        remaining == GetHeader(headers, RemainingHeader)
        reset == GetHeader(headers, ResetHeader)
    IN  (IF limit.type = "string"
         THEN <<GaugeSet("external_api_rate_limit", invokedBy, ParseInt(limit.text))>>
         ELSE <<>>)
        \o (IF remaining.type = "string"
            THEN <<GaugeSet("external_api_rate_limit_remaining", invokedBy,
                            ParseInt(remaining.text))>>
            ELSE <<>>)
        \o (IF reset.type = "string"
            THEN <<GaugeSet("external_api_rate_limit_reset", invokedBy,
                            Minus(ParseInt(reset.text), now))>>
            ELSE <<>>)

\* the middleware runs: res.on('finish', ...); next()
MetricsMiddleware ==
    /\ mStage = "received"
    /\ mStage' = "next"
    /\ UNCHANGED <<mHeaders, mSets>>
    /\ UNCHANGED <<routerVars, readerVars, filterVars, cacheVars, clientVars, concurrentVars, urlVars>>

\* the handler behind the middleware answers; the response is sent
HandlerResponds ==
    /\ mStage = "next"
    /\ mHeaders' \in MetricHeaders(MaxHeaderLen)
    /\ mStage' = "ended"
    /\ UNCHANGED mSets
    /\ UNCHANGED <<routerVars, readerVars, filterVars, cacheVars, clientVars, concurrentVars, urlVars>>

\* 'finish' fires and the listener runs to its end
FinishListener ==
    /\ mStage = "ended"
    /\ \E principal \in Principals, now \in Nows :
           mSets' = RateLimitSets(mHeaders, InvokedBy(principal), now)
    /\ mStage' = "measured"
    /\ UNCHANGED mHeaders
    /\ UNCHANGED <<routerVars, readerVars, filterVars, cacheVars, clientVars, concurrentVars, urlVars>>

NextMetrics == MetricsMiddleware \/ HandlerResponds \/ FinishListener

(***************************************************************************)
(* The proxy handler under concurrent requests: every invocation has its   *)
(* own `url` and `octokit`, and getOctokit constructs a client on each     *)
(* call; a constructed client carries the request it was made in.          *)
(***************************************************************************)
\* mutant: a client constructed earlier is used when there is one
HandlerClientReused(i, made, url, run) ==
    IF made # {} THEN CHOOSE c \in made : TRUE
    ELSE [octokit |-> getOctokit(url, run).client, request |-> i]

\* const octokit = await getOctokit({integrations, credentialsProvider, url, logger})
\* in the invocation for request i
HandlerClient(i, made, url, run) ==
    [octokit |-> getOctokit(url, run).client, request |-> i]

\* a request with a github-host header enters the handler, which awaits
\* getOctokit
Arrive ==
    /\ Len(requests) < MaxRequests
    /\ \E h \in Hosts :
           requests' = Append(requests, [host |-> h, at |-> "getOctokit",
                                         octokit |-> NoClient])
    /\ UNCHANGED <<built, forwarded>>
    /\ UNCHANGED <<routerVars, readerVars, filterVars, cacheVars, clientVars,
                   metricsVars, urlVars>>

\* getOctokit settles for one of the waiting requests: without a client the
\* request is answered 500, with one the request is forwarded
Forward ==
    /\ \E i \in DOMAIN requests, run \in FactoryRuns :
         LET c == HandlerClient(i, built, requests[i].host, run) IN
         /\ requests[i].at = "getOctokit"
         /\ IF c.octokit = NoClient
            THEN /\ requests' = [requests EXCEPT ![i].at = "done"]
                 /\ UNCHANGED <<built, forwarded>>
            ELSE /\ requests' = [requests EXCEPT ![i].at = "request",
                                                  ![i].octokit = c.octokit]
                 /\ built' = built \cup {c}
                 /\ forwarded' = Append(forwarded,
                                        [request |-> i, host |-> requests[i].host,
                                         client |-> c])
    /\ UNCHANGED <<routerVars, readerVars, filterVars, cacheVars, clientVars,
                   metricsVars, urlVars>>

\* the upstream call of a request settles and the request is answered; the
\* invocation ends and its locals with it
Answer ==
    /\ \E i \in DOMAIN requests :
           /\ requests[i].at = "request"
           /\ requests' = [requests EXCEPT ![i].at = "done", ![i].octokit = NoClient]
    /\ UNCHANGED <<built, forwarded>>
    /\ UNCHANGED <<routerVars, readerVars, filterVars, cacheVars, clientVars,
                   metricsVars, urlVars>>

NextConcurrent == Arrive \/ Forward \/ Answer

(***************************************************************************)
(* parseGithubUrl and the urls of search.  A url is https://resource/      *)
(* followed by its first pieces (owner, name and, when it has them, blob   *)
(* or tree and the ref) and the text after them.                           *)
(***************************************************************************)
UrlPathChars == {"a", "/", "#"}
UrlPaths(n) == {p \in SeqsUpTo(UrlPathChars, n) : WellFormed(p)}
Owners == {"backstage"}
Repos == {"backstage", "docs"}
Refs == {"main", "v1"}
NoUrl == [resource |-> "", pieces |-> <<>>, rest |-> <<>>]
NoRef == [host |-> "", owner |-> "", repo |-> "", path |-> <<>>, ref |-> ""]

\* the urls a caller may search: a repository, or a tree of it at a ref
SearchedUrls ==
    {[resource |-> h, pieces |-> <<o, r>>, rest |-> <<>>] :
        h \in Hosts, o \in Owners, r \in Repos}
    \cup {[resource |-> h, pieces |-> <<o, r, "tree", ref>>, rest |-> <<>>] :
              h \in Hosts, o \in Owners, r \in Repos, ref \in Refs}

\* the text of a url up to its fragment or query
BeforeHash(text) ==
    LET marks == {i \in DOMAIN text : text[i] \in {"#", "?"}}
    IN  IF marks = {} THEN text ELSE SubSeq(text, 1, Min(marks) - 1)

\* parseGitUrl(url): source, owner, name, and for a blob or tree url the ref
\* and the file path
ParseGitUrl(url) ==
    LET typed == Len(url.pieces) >= 4 /\ url.pieces[3] \in {"blob", "tree"}
    IN  [source |-> url.resource,
         owner |-> url.pieces[1],
         name |-> url.pieces[2],
         ref |-> IF typed THEN url.pieces[4] ELSE "",
         filepath |-> IF typed THEN BeforeHash(url.rest) ELSE <<>>]

\* parseGithubUrl: {host: source, owner, repo: name, path: filepath || '',
\* ref: ref || 'main'}
ParseGithubUrl(url) ==
    LET parsed == ParseGitUrl(url)
    IN  [host |-> parsed.source,
         owner |-> parsed.owner,
         repo |-> parsed.name,
         path |-> parsed.filepath,
         ref |-> IF parsed.ref = "" THEN "main" ELSE parsed.ref]

\* `https://github.com/${owner}/${repo}/blob/${ref}/${file.path}`
BlobUrl(owner, repo, ref, path) ==
    [resource |-> "github.com", pieces |-> <<owner, repo, "blob", ref>>, rest |-> path]

\* search parses the url it is called with
ParseSearched ==
    /\ uSearched = NoRef
    /\ uSearched' = ParseGithubUrl(uUrl)
    /\ UNCHANGED <<uUrl, uBlob, uReturned, uParsed>>
    /\ UNCHANGED <<routerVars, readerVars, filterVars, cacheVars, clientVars,
                   metricsVars, concurrentVars>>

\* search builds the url of a matched blob
ReturnUrl ==
    /\ uSearched # NoRef /\ uReturned = NoUrl
    /\ uReturned' = BlobUrl(uSearched.owner, uSearched.repo, uSearched.ref, uBlob)
    /\ UNCHANGED <<uUrl, uSearched, uBlob, uParsed>>
    /\ UNCHANGED <<routerVars, readerVars, filterVars, cacheVars, clientVars,
                   metricsVars, concurrentVars>>

\* the returned url is given to the reader again
ParseReturned ==
    /\ uReturned # NoUrl /\ uParsed = NoRef
    /\ uParsed' = ParseGithubUrl(uReturned)
    /\ UNCHANGED <<uUrl, uSearched, uBlob, uReturned>>
    /\ UNCHANGED <<routerVars, readerVars, filterVars, cacheVars, clientVars,
                   metricsVars, concurrentVars>>

NextUrl == ParseSearched \/ ReturnUrl \/ ParseReturned

(***************************************************************************)
(* The specifications: the router serving a request, the reader serving a  *)
(* call, the two tree filters applied to a listing, forHost calls on one   *)
(* cache, a request through the configured client, the metrics middleware, *)
(* the handler under concurrent requests, and the urls of search.  Each    *)
(* starts the other parts idle and leaves them alone.                      *)
(***************************************************************************)
InitRouter ==
    /\ req = NoRequest
    /\ layer = 0
    /\ rpc = "idle"
    /\ octokit = NoClient
    /\ clients = 0
    /\ upstream = <<>>
    /\ outcome = NoOutcome
    /\ res = FreshRes
    /\ thrown = NoError
    /\ log = <<>>
    /\ listeners = 0
    /\ gauges = <<>>
    /\ factory = NoRun
    /\ op = "none"
    /\ pc = "idle"
    /\ arg = NoArg
    /\ octokitCache = {}
    /\ fetched = NoOutcome
    /\ listing = EmptyObject
    /\ files = {}
    /\ tasks = EmptyObject
    /\ promiseAll = Pending
    /\ tempDir = {}
    /\ result = NoResult
    /\ apiCalls = NoCalls
    /\ accessors = <<>>
    /\ fTree = EmptyObject
    /\ fPath = <<>>
    /\ fRead = Unset
    /\ fSearch = Unset
    /\ cache = {}
    /\ calls = <<>>
    /\ history = <<>>
    /\ settled = Idle
    /\ attempts = <<>>
    /\ retried = 0
    /\ warnings = <<>>
    /\ mStage = "received"
    /\ mHeaders = EmptyObject
    /\ mSets = <<>>
    /\ requests = <<>>
    /\ built = {}
    /\ forwarded = <<>>
    /\ uUrl = NoUrl
    /\ uSearched = NoRef
    /\ uBlob = <<>>
    /\ uReturned = NoUrl
    /\ uParsed = NoRef

InitReader ==
    /\ req = NoRequest
    /\ layer = 0
    /\ rpc = "idle"
    /\ octokit = NoClient
    /\ clients = 0
    /\ upstream = <<>>
    /\ outcome = NoOutcome
    /\ res = FreshRes
    /\ thrown = NoError
    /\ log = <<>>
    /\ listeners = 0
    /\ gauges = <<>>
    /\ factory = NoRun
    /\ op = "none"
    /\ pc = "idle"
    /\ arg = NoArg
    /\ octokitCache = {}
    /\ fetched = NoOutcome
    /\ listing = EmptyObject
    /\ files = {}
    /\ tasks = EmptyObject
    /\ promiseAll = Pending
    /\ tempDir = {}
    /\ result = NoResult
    /\ apiCalls = NoCalls
    /\ accessors = <<>>
    /\ fTree = EmptyObject
    /\ fPath = <<>>
    /\ fRead = Unset
    /\ fSearch = Unset
    /\ cache = {}
    /\ calls = <<>>
    /\ history = <<>>
    /\ settled = Idle
    /\ attempts = <<>>
    /\ retried = 0
    /\ warnings = <<>>
    /\ mStage = "received"
    /\ mHeaders = EmptyObject
    /\ mSets = <<>>
    /\ requests = <<>>
    /\ built = {}
    /\ forwarded = <<>>
    /\ uUrl = NoUrl
    /\ uSearched = NoRef
    /\ uBlob = <<>>
    /\ uReturned = NoUrl
    /\ uParsed = NoRef

InitFilter ==
    /\ req = NoRequest
    /\ layer = 0
    /\ rpc = "idle"
    /\ octokit = NoClient
    /\ clients = 0
    /\ upstream = <<>>
    /\ outcome = NoOutcome
    /\ res = FreshRes
    /\ thrown = NoError
    /\ log = <<>>
    /\ listeners = 0
    /\ gauges = <<>>
    /\ factory = NoRun
    /\ op = "none"
    /\ pc = "idle"
    /\ arg = NoArg
    /\ octokitCache = {}
    /\ fetched = NoOutcome
    /\ listing = EmptyObject
    /\ files = {}
    /\ tasks = EmptyObject
    /\ promiseAll = Pending
    /\ tempDir = {}
    /\ result = NoResult
    /\ apiCalls = NoCalls
    /\ accessors = <<>>
    /\ fTree \in TreesOver(Paths(MaxPathLen), MaxTree)
    /\ fPath \in {<<>>, StarStar} \cup Paths(MaxPathLen)
    /\ fRead = Unset
    /\ fSearch = Unset
    /\ cache = {}
    /\ calls = <<>>
    /\ history = <<>>
    /\ settled = Idle
    /\ attempts = <<>>
    /\ retried = 0
    /\ warnings = <<>>
    /\ mStage = "received"
    /\ mHeaders = EmptyObject
    /\ mSets = <<>>
    /\ requests = <<>>
    /\ built = {}
    /\ forwarded = <<>>
    /\ uUrl = NoUrl
    /\ uSearched = NoRef
    /\ uBlob = <<>>
    /\ uReturned = NoUrl
    /\ uParsed = NoRef

InitCache ==
    /\ req = NoRequest
    /\ layer = 0
    /\ rpc = "idle"
    /\ octokit = NoClient
    /\ clients = 0
    /\ upstream = <<>>
    /\ outcome = NoOutcome
    /\ res = FreshRes
    /\ thrown = NoError
    /\ log = <<>>
    /\ listeners = 0
    /\ gauges = <<>>
    /\ factory = NoRun
    /\ op = "none"
    /\ pc = "idle"
    /\ arg = NoArg
    /\ octokitCache = {}
    /\ fetched = NoOutcome
    /\ listing = EmptyObject
    /\ files = {}
    /\ tasks = EmptyObject
    /\ promiseAll = Pending
    /\ tempDir = {}
    /\ result = NoResult
    /\ apiCalls = NoCalls
    /\ accessors = <<>>
    /\ fTree = EmptyObject
    /\ fPath = <<>>
    /\ fRead = Unset
    /\ fSearch = Unset
    /\ cache = {}
    /\ calls = <<>>
    /\ history = <<>>
    /\ settled = Idle
    /\ attempts = <<>>
    /\ retried = 0
    /\ warnings = <<>>
    /\ mStage = "received"
    /\ mHeaders = EmptyObject
    /\ mSets = <<>>
    /\ requests = <<>>
    /\ built = {}
    /\ forwarded = <<>>
    /\ uUrl = NoUrl
    /\ uSearched = NoRef
    /\ uBlob = <<>>
    /\ uReturned = NoUrl
    /\ uParsed = NoRef

InitClient ==
    /\ req = NoRequest
    /\ layer = 0
    /\ rpc = "idle"
    /\ octokit = NoClient
    /\ clients = 0
    /\ upstream = <<>>
    /\ outcome = NoOutcome
    /\ res = FreshRes
    /\ thrown = NoError
    /\ log = <<>>
    /\ listeners = 0
    /\ gauges = <<>>
    /\ factory = NoRun
    /\ op = "none"
    /\ pc = "idle"
    /\ arg = NoArg
    /\ octokitCache = {}
    /\ fetched = NoOutcome
    /\ listing = EmptyObject
    /\ files = {}
    /\ tasks = EmptyObject
    /\ promiseAll = Pending
    /\ tempDir = {}
    /\ result = NoResult
    /\ apiCalls = NoCalls
    /\ accessors = <<>>
    /\ fTree = EmptyObject
    /\ fPath = <<>>
    /\ fRead = Unset
    /\ fSearch = Unset
    /\ cache = {}
    /\ calls = <<>>
    /\ history = <<>>
    /\ settled = Idle
    /\ attempts = <<>>
    /\ retried = 0
    /\ warnings = <<>>
    /\ mStage = "received"
    /\ mHeaders = EmptyObject
    /\ mSets = <<>>
    /\ requests = <<>>
    /\ built = {}
    /\ forwarded = <<>>
    /\ uUrl = NoUrl
    /\ uSearched = NoRef
    /\ uBlob = <<>>
    /\ uReturned = NoUrl
    /\ uParsed = NoRef

InitMetrics ==
    /\ req = NoRequest
    /\ layer = 0
    /\ rpc = "idle"
    /\ octokit = NoClient
    /\ clients = 0
    /\ upstream = <<>>
    /\ outcome = NoOutcome
    /\ res = FreshRes
    /\ thrown = NoError
    /\ log = <<>>
    /\ listeners = 0
    /\ gauges = <<>>
    /\ factory = NoRun
    /\ op = "none"
    /\ pc = "idle"
    /\ arg = NoArg
    /\ octokitCache = {}
    /\ fetched = NoOutcome
    /\ listing = EmptyObject
    /\ files = {}
    /\ tasks = EmptyObject
    /\ promiseAll = Pending
    /\ tempDir = {}
    /\ result = NoResult
    /\ apiCalls = NoCalls
    /\ accessors = <<>>
    /\ fTree = EmptyObject
    /\ fPath = <<>>
    /\ fRead = Unset
    /\ fSearch = Unset
    /\ cache = {}
    /\ calls = <<>>
    /\ history = <<>>
    /\ settled = Idle
    /\ attempts = <<>>
    /\ retried = 0
    /\ warnings = <<>>
    /\ mStage = "received"
    /\ mHeaders = EmptyObject
    /\ mSets = <<>>
    /\ requests = <<>>
    /\ built = {}
    /\ forwarded = <<>>
    /\ uUrl = NoUrl
    /\ uSearched = NoRef
    /\ uBlob = <<>>
    /\ uReturned = NoUrl
    /\ uParsed = NoRef

InitConcurrent ==
    /\ req = NoRequest
    /\ layer = 0
    /\ rpc = "idle"
    /\ octokit = NoClient
    /\ clients = 0
    /\ upstream = <<>>
    /\ outcome = NoOutcome
    /\ res = FreshRes
    /\ thrown = NoError
    /\ log = <<>>
    /\ listeners = 0
    /\ gauges = <<>>
    /\ factory = NoRun
    /\ op = "none"
    /\ pc = "idle"
    /\ arg = NoArg
    /\ octokitCache = {}
    /\ fetched = NoOutcome
    /\ listing = EmptyObject
    /\ files = {}
    /\ tasks = EmptyObject
    /\ promiseAll = Pending
    /\ tempDir = {}
    /\ result = NoResult
    /\ apiCalls = NoCalls
    /\ accessors = <<>>
    /\ fTree = EmptyObject
    /\ fPath = <<>>
    /\ fRead = Unset
    /\ fSearch = Unset
    /\ cache = {}
    /\ calls = <<>>
    /\ history = <<>>
    /\ settled = Idle
    /\ attempts = <<>>
    /\ retried = 0
    /\ warnings = <<>>
    /\ mStage = "received"
    /\ mHeaders = EmptyObject
    /\ mSets = <<>>
    /\ requests = <<>>
    /\ built = {}
    /\ forwarded = <<>>
    /\ uUrl = NoUrl
    /\ uSearched = NoRef
    /\ uBlob = <<>>
    /\ uReturned = NoUrl
    /\ uParsed = NoRef

InitUrl ==
    /\ req = NoRequest
    /\ layer = 0
    /\ rpc = "idle"
    /\ octokit = NoClient
    /\ clients = 0
    /\ upstream = <<>>
    /\ outcome = NoOutcome
    /\ res = FreshRes
    /\ thrown = NoError
    /\ log = <<>>
    /\ listeners = 0
    /\ gauges = <<>>
    /\ factory = NoRun
    /\ op = "none"
    /\ pc = "idle"
    /\ arg = NoArg
    /\ octokitCache = {}
    /\ fetched = NoOutcome
    /\ listing = EmptyObject
    /\ files = {}
    /\ tasks = EmptyObject
    /\ promiseAll = Pending
    /\ tempDir = {}
    /\ result = NoResult
    /\ apiCalls = NoCalls
    /\ accessors = <<>>
    /\ fTree = EmptyObject
    /\ fPath = <<>>
    /\ fRead = Unset
    /\ fSearch = Unset
    /\ cache = {}
    /\ calls = <<>>
    /\ history = <<>>
    /\ settled = Idle
    /\ attempts = <<>>
    /\ retried = 0
    /\ warnings = <<>>
    /\ mStage = "received"
    /\ mHeaders = EmptyObject
    /\ mSets = <<>>
    /\ requests = <<>>
    /\ built = {}
    /\ forwarded = <<>>
    /\ uUrl \in SearchedUrls
    /\ uSearched = NoRef
    /\ uBlob \in UrlPaths(MaxPathLen) \ {<<>>}
    /\ uReturned = NoUrl
    /\ uParsed = NoRef

SpecRouter == InitRouter /\ [][NextRouter]_vars

SpecReader == InitReader /\ [][NextReader]_vars

SpecFilter == InitFilter /\ [][NextFilter]_vars

SpecCache == InitCache /\ [][NextCache]_vars

SpecClient == InitClient /\ [][NextClient]_vars

SpecMetrics == InitMetrics /\ [][NextMetrics]_vars

SpecConcurrent == InitConcurrent /\ [][NextConcurrent]_vars

SpecUrl == InitUrl /\ [][NextUrl]_vars


C2_MetricsAfterEveryAnswer ==
    /\ res.ended => listeners > 0
    /\ res.finished => Len(gauges) > 0

\* C3: when getOctokit yields no client, no upstream request is made and the
\* request fails with status 500 and a JSON error message naming the host.
C3_AbsentClientIs500NamingHost ==
    (rpc = "done" /\ octokit = NoClient) =>
        /\ upstream = <<>>
        /\ res.ended /\ res.status = 500
        /\ Len(res.body) = 2 /\ res.body[1] = "json"
        /\ \E i \in DOMAIN res.body[2].error : res.body[2].error[i] = req.host

C3_Witness_AbsentClient ==
    rpc = "done" /\ octokit = NoClient /\ res.status = 500 /\ req.host = "github.com"

\* C4: for every failure raised while obtaining the client or forwarding the
\* request, the response status is the error's status if it has one and 500
\* otherwise, the body is the JSON object {error: message}, and the error is
\* logged.
C4_FailureRelaysStatusOr500 ==
    (rpc = "done" /\ outcome.kind = "error") =>
        /\ res.ended
        /\ res.status = (IF outcome.status # 0 THEN outcome.status ELSE 500)
        /\ res.body = <<"json", [error |-> outcome.message]>>
        /\ \E i \in DOMAIN log :
              log[i] = [level |-> "error", message |-> outcome.message]

C4_Witness_UpstreamErrorWithStatus ==
    rpc = "done" /\ outcome.kind = "error" /\ outcome.status = 404 /\ res.status = 404

\* C5: for every successful upstream response the relayed response has the
\* upstream status, every upstream header except transfer-encoding and
\* content-encoding (never present), content-type application/json whatever
\* the upstream content-type, and the upstream body serialized as JSON.
C5_SuccessRelay ==
    (rpc = "done" /\ outcome.kind = "response") =>
        /\ res.ended
        /\ res.status = outcome.status
        /\ \A n \in DOMAIN outcome.headers \
                      {"transfer-encoding", "content-encoding", "content-type"} :
              n \in DOMAIN res.headers /\ res.headers[n] = outcome.headers[n]
        /\ DOMAIN res.headers \subseteq DOMAIN outcome.headers \cup {"content-type"}
        /\ "transfer-encoding" \notin DOMAIN res.headers
        /\ "content-encoding" \notin DOMAIN res.headers
        /\ "content-type" \in DOMAIN res.headers
        /\ res.headers["content-type"] = "application/json"
        /\ outcome.data.type # "undefined" => res.body = <<"json", outcome.data>>

C5_Witness_FramingHeadersDropped ==
    /\ rpc = "done" /\ outcome.kind = "response"
    /\ {"transfer-encoding", "content-encoding", "content-type", "etag"}
           \subseteq DOMAIN outcome.headers
    /\ outcome.headers["content-type"] = "text/plain"
    /\ outcome.data.type = "object"
    /\ DOMAIN res.headers = {"content-type", "etag"}

\* C6: a request whose path is /api/github followed by P is forwarded to
\* upstream path P exactly (only the leading prefix is removed), with the
\* inbound method and body unchanged.
C6_PrefixStripped ==
    (upstream # <<>> /\ Len(req.originalUrl) >= 2
        /\ SubSeq(req.originalUrl, 1, 2) = <<"/api", "/github">>) =>
        /\ Len(upstream) = 1
        /\ upstream[1].url = SubSeq(req.originalUrl, 3, Len(req.originalUrl))
        /\ upstream[1].method = req.method
        /\ upstream[1].data = req.body

C6_Witness_PrefixInsideRest ==
    /\ upstream # <<>>
    /\ req.originalUrl = <<"/api", "/github", "/api", "/github">>
    /\ upstream[1].url = <<"/api", "/github">>

\* C13: getOctokit never lets an error out: when getCredentials, the
\* integration lookup or the constructor fails it logs the error and returns
\* undefined (the handler sees an absent client, not an exception), and it
\* returns a client only when every step succeeded.
C13_FactoryFailureIsLoggedAbsent ==
    (rpc \in {"request", "done"}) =>
        /\ (octokit.kind = "client") <=>
              /\ factory.cred = "token"
              /\ factory.byUrl \in {"integration", "undefined"}
              /\ factory.construct = "client"
        /\ "throws" \in {factory.cred, factory.byUrl, factory.construct} =>
              /\ octokit = [kind |-> "undefined"]
              /\ \E i \in DOMAIN log :
                    /\ log[i].level = "error"
                    /\ log[i].message[1] = "Error creating Octokit for url "
                    /\ log[i].message[2] = req.host
              /\ thrown = [name |-> "none"]
              /\ outcome.message = <<"Failed to create Octokit instance for ", req.host>>

C13_Witness_ConstructorThrows ==
    /\ rpc = "done" /\ factory.cred = "token" /\ factory.byUrl = "integration"
    /\ factory.construct = "throws"
    /\ octokit = [kind |-> "undefined"] /\ Len(log) = 2

(***************************************************************************)
(* Properties of the URL reader (checked under SpecReader)                 *)
(***************************************************************************)
\* C7: readUrl called with an etag turns an upstream 304 into the
\* NotModified outcome, never a generic error and never a result with a
\* buffer; an upstream error with any other status is propagated unchanged.
C7_NotModifiedOn304 ==
    (op = "readUrl" /\ pc = "done" /\ fetched.kind = "error") =>
        /\ (arg.etag # Absent /\ fetched.error.status = 304) =>
              /\ result.kind = "error"
              /\ result.error.name = "NotModifiedError"
        /\ fetched.error.status # 304 =>
              result = [kind |-> "error", error |-> fetched.error]

C7_Witness_304WithEtag ==
    /\ op = "readUrl" /\ pc = "done" /\ arg.etag = "W/1"
    /\ fetched.kind = "error" /\ fetched.error.status = 304
    /\ result.kind = "error" /\ result.error.name = "NotModifiedError"

\* C8: when the fetch or the decoding of at least one matching blob fails,
\* readTree fails as a whole: it never returns a result built from the blobs
\* that succeeded, whatever their number and the position of the failing one.
C8_OneBlobFailureFailsReadTree ==
    (op = "readTree" /\ \E p \in DOMAIN tasks : tasks[p] = "rejected") =>
        pc = "done" /\ result.kind = "error"

C8_Witness_OneWrittenOneRejected ==
    /\ op = "readTree" /\ result.kind = "error"
    /\ \E p, q \in DOMAIN tasks : tasks[p] = "written" /\ tasks[q] = "rejected"

\* C9: the files a successful readTree returns are exactly the blob entries
\* of the listing when the url has no sub-path, and exactly the blob entries
\* whose path starts with P when it has sub-path P.
C9_ReadTreeReturnsBlobsUnderPrefix ==
    (op = "readTree" /\ result.kind = "value") =>
        result.value.files =
            {p \in DOMAIN listing :
                /\ listing[p] = "blob"
                /\ \/ arg.path = <<>>
                   \/ /\ Len(arg.path) <= Len(p)
                      /\ \A i \in DOMAIN arg.path : p[i] = arg.path[i]}

C9_Witness_SubPathSelectsBlobs ==
    /\ op = "readTree" /\ result.kind = "value"
    /\ arg.path = <<"a">>
    /\ DOMAIN listing = {<<"a">>, <<"a", "/", "a">>}
    /\ result.value.files = {<<"a", "/", "a">>}

\* C11: search issues exactly one upstream call, the tree listing, before it
\* returns and no content fetch; a content fetch happens only when, and each
\* time, a result's content accessor is called, and a failing fetch fails that
\* accessor call only: the search result and the other accessor calls stand.
C11_SearchFetchesContentLazily ==
    (op = "search" /\ pc = "done" /\ result.kind = "value") =>
        /\ apiCalls.getTree = 1
        /\ apiCalls.getContent = Len(accessors)
        /\ result.value.files = {[host |-> "github.com", path |-> p] : p \in files}
        /\ \A i \in DOMAIN accessors :
              /\ accessors[i].path \in files
              /\ accessors[i].outcome.kind = "error" =>
                    accessors[i].outcome.error.name \in {"HttpError", "Error"}

C11_Witness_OneAccessorFailsOneSucceeds ==
    /\ op = "search" /\ pc = "done" /\ result.kind = "value"
    /\ Cardinality(files) = 2 /\ Len(accessors) = 2
    /\ accessors[1].outcome.kind = "error"
    /\ accessors[2].outcome.kind = "value"
    /\ apiCalls.getTree = 1 /\ apiCalls.getContent = 2

(***************************************************************************)
(* Properties of the tree filters (checked under SpecFilter)               *)
(***************************************************************************)
\* C10: on every listing, search with pattern ** (or with no sub-path) selects
\* the same blob paths as readTree with no sub-path.
C10_SearchAllEqualsReadTreeAll ==
    /\ (fRead.set /\ fSearch.set /\ fPath = <<>>) => fSearch.files = fRead.files
    /\ (fSearch.set /\ fPath = StarStar) => fSearch.files = ReadTreeFiles(fTree, <<>>)

(***************************************************************************)
(* Properties of the client cache (checked under SpecCache)                *)
(***************************************************************************)
\* C12 (as stated): once a forHost(h) call has completed successfully, every
\* forHost(h) call started afterwards returns that same client, tagged h,
\* without performing discovery; clients returned for two different hosts
\* carry their own host tag.
C12_LaterCallsReturnSameClient ==
    /\ \A i, j \in DOMAIN history :
          (/\ i < j
           /\ history[i].type \in {"return", "stored"}
           /\ history[j].type \in {"return", "discovery"}
           /\ history[j].host = history[i].host) =>
              /\ history[j].type = "return"
              /\ history[j].client = history[i].client
              /\ history[j].client.host = history[j].host
    /\ \A c, d \in DOMAIN calls :
          (calls[c].state = "returned" /\ calls[d].state = "returned"
              /\ calls[c].host # calls[d].host) =>
              /\ calls[c].client.host = calls[c].host
              /\ calls[d].client.host = calls[d].host

\* C12 (amended): once a forHost(h) call has completed successfully, every
\* forHost(h) call started afterwards returns, without performing discovery,
\* the client most recently stored for h, tagged h; clients returned for two
\* different hosts carry their own host tag.
C12_LaterCallsReturnLastStored ==
    /\ \A i, j \in DOMAIN history :
          (/\ i < j
           /\ history[i].type \in {"return", "stored"}
           /\ history[j].type \in {"return", "discovery"}
           /\ history[j].host = history[i].host) =>
              LET stores == {k \in 1..(j - 1) : /\ history[k].type = "stored"
                                                /\ history[k].host = history[j].host}
                  last == CHOOSE k \in stores : \A l \in stores : l <= k
              IN  /\ history[j].type = "return"
                  /\ stores # {}
                  /\ history[j].client = history[last].client
                  /\ history[j].client.host = history[j].host
    /\ \A c, d \in DOMAIN calls :
          (calls[c].state = "returned" /\ calls[d].state = "returned"
              /\ calls[c].host # calls[d].host) =>
              /\ calls[c].client.host = calls[c].host
              /\ calls[d].client.host = calls[d].host

\* two calls for one host raced and each stored its client; a third call made
\* afterwards was handed the later store
C12_Witness_HitAfterRace ==
    /\ Len(history) = 5
    /\ history[1].type = "discovery" /\ history[2].type = "discovery"
    /\ history[3].type = "stored" /\ history[4].type = "stored"
    /\ history[5].type = "return"
    /\ history[5].host = history[3].host /\ history[5].host = history[4].host
    /\ history[5].client = history[4].client
    /\ history[5].client # history[3].client

\* C17: the cache holds at most one client per host; when two forHost(h)
\* calls both miss the cache before either stores, each discovers and
\* constructs its own client, and once the calls for h have finished the
\* cache entry of h is the client of the later store, so the earlier caller
\* holds a client that is not the cached one.
C17_LastStoreWins ==
    /\ \A e1, e2 \in cache : e1[1] = e2[1] => e1 = e2
    /\ \A h \in Hosts :
          LET stores == {k \in DOMAIN history : /\ history[k].type = "stored"
                                                /\ history[k].host = h}
              waiting == {c \in DOMAIN calls : /\ calls[c].host = h
                                               /\ calls[c].state = "discovery"}
          IN  (stores # {} /\ waiting = {}) =>
                LET last == CHOOSE k \in stores : \A l \in stores : l <= k IN
                /\ <<h, history[last].client>> \in cache
                /\ \A k \in stores \ {last} :
                      /\ history[k].client # history[last].client
                      /\ <<h, history[k].client>> \notin cache
                      /\ calls[history[k].call].client = history[k].client
                /\ Cardinality({k \in DOMAIN history :
                                   /\ history[k].type = "discovery"
                                   /\ history[k].host = h}) >= Cardinality(stores)

C17_Witness_RaceSecondStoreCached ==
    /\ Len(history) = 4
    /\ history[1].type = "discovery" /\ history[2].type = "discovery"
    /\ history[1].host = "github.com" /\ history[2].host = "github.com"
    /\ history[3] = [type |-> "stored", call |-> 2, host |-> "github.com",
                      client |-> [id |-> 2, host |-> "github.com"]]
    /\ history[4] = [type |-> "stored", call |-> 1, host |-> "github.com",
                      client |-> [id |-> 1, host |-> "github.com"]]
    /\ cache = {<<"github.com", [id |-> 1, host |-> "github.com"]>>}
    /\ calls[2].client = [id |-> 2, host |-> "github.com"]

\* C20: a forHost(h) call whose discovery fails ends with the error and
\* without a client, and stores nothing: the cache holds exactly the last
\* successful store of each host, whatever calls failed, so a forHost(h)
\* made after the failure and before any store for h discovers again.
C20_FailedDiscoveryStoresNothing ==
    (\E k \in DOMAIN history : history[k].type = "threw") =>
        /\ \A c \in DOMAIN calls :
              calls[c].state = "threw" => calls[c].client = [id |-> 0, host |-> ""]
        /\ \A h \in Hosts :
              LET stores == {k \in DOMAIN history : /\ history[k].type = "stored"
                                                    /\ history[k].host = h}
              IN  /\ stores = {} => \A e \in cache : e[1] # h
                  /\ stores # {} =>
                        \E k \in stores :
                            /\ \A l \in stores : l <= k
                            /\ \A e \in cache : e[1] = h => e[2] = history[k].client
        /\ \A i, j \in DOMAIN history :
              (/\ i < j
               /\ history[i].type = "threw"
               /\ history[j].type \in {"return", "discovery"}
               /\ history[j].host = history[i].host
               /\ \A k \in 1..(j - 1) :
                     ~(history[k].type = "stored" /\ history[k].host = history[j].host)) =>
                  history[j].type = "discovery"

C20_Witness_DiscoveryAgainAfterFailure ==
    /\ Len(history) = 5
    /\ history[1].type = "discovery" /\ history[1].host = "ghe.example.com"
    /\ history[2].type = "stored"
    /\ history[3].type = "discovery" /\ history[3].host = "github.com"
    /\ history[4].type = "threw" /\ history[4].call = 2
    /\ history[5].type = "discovery" /\ history[5].host = "github.com"
    /\ cache = {<<"ghe.example.com", [id |-> 1, host |-> "ghe.example.com"]>>}

(***************************************************************************)
(* Properties of a request through the configured client (SpecClient)      *)
(***************************************************************************)
\* C14: an upstream answer of status 400, 401, 403, 404, 422, 429 or 501 is
\* never retried by the retry policy (it is the last attempt and the call is
\* rejected with it), and for any other failing status the request is
\* attempted at most 3 times in total.
C14_ExcludedStatusesNotRetried ==
    /\ \A i \in DOMAIN attempts :
          (/\ attempts[i].signal = "none"
           /\ attempts[i].status \in {400, 401, 403, 404, 422, 429, 501}) =>
              /\ i = Len(attempts)
              /\ settled = [state |-> "rejected", status |-> attempts[i].status]
    /\ (\A i \in DOMAIN attempts : attempts[i].signal = "none") =>
          Len(attempts) <= 3

\* C15: the throttle callbacks ask for a retry at every retry count and log
\* one warning per signal: while the upstream has answered every attempt of
\* a call with a rate-limit signal, the call is still pending (it has neither
\* completed nor failed), however many attempts were made.
C15_RateLimitRetriedWithoutBound ==
    /\ Len(warnings) =
          Cardinality({i \in DOMAIN attempts : attempts[i].signal # "none"})
    /\ \A k \in DOMAIN warnings :
          warnings[k].level = "warn" /\ warnings[k].retryCount = k - 1
    /\ (attempts # <<>> /\ \A i \in DOMAIN attempts : attempts[i].signal # "none") =>
          settled = [state |-> "pending"]

C15_Witness_FiveSignalsStillPending ==
    /\ Len(attempts) = 5
    /\ \A i \in DOMAIN attempts : attempts[i].signal # "none"
    /\ attempts[1].signal = "primary" /\ attempts[2].signal = "secondary"
    /\ Len(warnings) = 5
    /\ settled = [state |-> "pending"]

(***************************************************************************)
(* Properties of the rate-limit metrics step (SpecMetrics)                 *)
(***************************************************************************)
\* C16: each of the three gauges is set if and only if its own response
\* header is present with a numeric value; an absent or non-numeric header
\* leaves that gauge alone unset, whatever the other two headers are.
C16_GaugeSetIffHeaderNumeric ==
    mStage = "measured" =>
        \A pair \in {<<"x-ratelimit-limit", "external_api_rate_limit">>,
                      <<"x-ratelimit-overall-remaining",
                        "external_api_rate_limit_remaining">>,
                      <<"x-external-api-ratelimit-reset",
                        "external_api_rate_limit_reset">>} :
            LET present == pair[1] \in DOMAIN mHeaders
                numeric ==
                    /\ present
                    /\ \/ mHeaders[pair[1]].type = "number"
                       \/ /\ mHeaders[pair[1]].type = "string"
                          /\ mHeaders[pair[1]].text # <<>>
                          /\ \A i \in DOMAIN mHeaders[pair[1]].text :
                                mHeaders[pair[1]].text[i] \in {"0", "6"}
            IN  (\E k \in DOMAIN mSets : mSets[k].gauge = pair[2]) <=> numeric

\* C18: after a successful readTree every path listed by files() has been
\* written under the returned temporary directory, so that its content
\* accessor can read it.
C18_ListedFilesAreMaterialized ==
    (op = "readTree" /\ pc = "done" /\ result.kind = "value") =>
        result.value.files \subseteq tempDir

\* C19: readTree returns its result only after every per-blob task it
\* started has completed, and once readTree has completed, with a result or
\* with a failure, none of its tasks fetches from the upstream or writes to
\* the temporary directory any more.
C19_NoTaskOutlivesReadTree ==
    [][/\ (op = "readTree" /\ pc # "done" /\ pc' = "done" /\ result'.kind = "value") =>
             \A p \in DOMAIN tasks' : tasks'[p] \in {"written", "returned"}
       /\ (op = "readTree" /\ pc = "done") =>
             /\ tempDir' = tempDir
             /\ apiCalls' = apiCalls]_vars

(***************************************************************************)
(* Properties of the handler under concurrent requests (SpecConcurrent)    *)
(***************************************************************************)
\* C21: the client a request is forwarded with was constructed during that
\* request, from the credentials and API base url of the request's own
\* github-host value; under every interleaving a request for one host is
\* never forwarded with a client built for another host, and a request that
\* has been answered holds no client.
C21_ClientIsTheRequestsOwn ==
    /\ \A k \in DOMAIN forwarded :
          LET i == forwarded[k].request IN
          /\ forwarded[k].host = requests[i].host
          /\ forwarded[k].client.request = i
          /\ forwarded[k].client.octokit.auth = <<"token for", requests[i].host>>
          /\ forwarded[k].client.octokit.baseUrl
                \in {<<"apiBaseUrl of", requests[i].host>>, <<"default">>}
    /\ \A i \in DOMAIN requests :
          /\ requests[i].at = "request" =>
                requests[i].octokit.auth = <<"token for", requests[i].host>>
          /\ requests[i].at = "done" => requests[i].octokit = [kind |-> "undefined"]

\* two requests for different hosts are in flight together, each with the
\* client of its own host, after a third has been answered
C21_Witness_TwoHostsInFlight ==
    /\ Len(requests) = 3 /\ Len(forwarded) = 3
    /\ requests[1].at = "done"
    /\ requests[2].at = "request" /\ requests[3].at = "request"
    /\ requests[2].host = "github.com" /\ requests[3].host = "ghe.example.com"
    /\ forwarded[1].request = 3
    /\ requests[2].octokit.auth = <<"token for", "github.com">>
    /\ requests[3].octokit.auth = <<"token for", "ghe.example.com">>

(***************************************************************************)
(* Properties of the urls of search (SpecUrl)                              *)
(***************************************************************************)
\* C22: every url search returns parses back to where the blob was found:
\* the host, owner, repo and ref of the searched url and the path of the
\* matched blob, for every host the searched url may name.
C22_SearchUrlRoundTrips ==
    uParsed # [host |-> "", owner |-> "", repo |-> "", path |-> <<>>, ref |-> ""] =>
        /\ uParsed.host = uSearched.host
        /\ uParsed.owner = uSearched.owner
        /\ uParsed.repo = uSearched.repo
        /\ uParsed.ref = uSearched.ref
        /\ uParsed.path = uBlob
====
